---- MODULE Spec2Model ----
(***************************************************************************)
(* A model of app.py, the Streamlit page of the Deepgram playground.       *)
(*                                                                         *)
(* A Streamlit page is a script that is run from top to bottom once when   *)
(* the page is loaded and once more after every widget interaction.  The   *)
(* state that survives between two runs is the value of every widget and   *)
(* the st.cache_data store of prerecorded().  Every user interaction is    *)
(* one action: it sets the widget and runs the whole script.               *)
(***************************************************************************)
EXTENDS Integers, Sequences, FiniteSets, TLC

\* ------------------------------------------------------------------ bounds

\* The number of user interactions (widget changes and Transcribe clicks)
\* explored after the page was loaded.
MaxEvents == 3

\* ------------------------------------------------------- values and tables

\* Python's None, and the empty str.
None == "<None>"
EmptyStr == ""

\* bool(x) of a str-or-None value: None and "" are falsy.
Truthy(x) == x # None /\ x # EmptyStr

AutoLanguage == "Automatic Language Detection"

\* The keys of MODELS in their order, and the table itself.
ModelNames == <<"Nova-2", "Nova", "Whisper Cloud", "Enhanced", "Base">>
MODELS == [n \in {ModelNames[i] : i \in DOMAIN ModelNames} |->
             CASE n = "Nova-2" -> "nova-2-ea"
               [] n = "Nova" -> "nova"
               [] n = "Whisper Cloud" -> "whisper-medium"
               [] n = "Enhanced" -> "enhanced"
               [] n = "Base" -> "base"]

\* The keys of LANGUAGES in their order, and the table itself.
LanguageNames == <<AutoLanguage, "English", "French", "Hindi">>
LANGUAGES == [n \in {LanguageNames[i] : i \in DOMAIN LanguageNames} |->
                CASE n = AutoLanguage -> None
                  [] n = "English" -> "en"
                  [] n = "French" -> "fr"
                  [] n = "Hindi" -> "hi"]

\* Mutant of LanguageIndex: a code that is not listed falls back to the first
\* entry instead of raising.
LanguageIndexOrFirst(code) ==
    IF \E i \in DOMAIN LanguageNames : LANGUAGES[LanguageNames[i]] = code
    THEN CHOOSE i \in DOMAIN LanguageNames : LANGUAGES[LanguageNames[i]] = code
    ELSE 1

\* list(LANGUAGES.values()).index(code): the first position holding code,
\* 0 when there is none (Python raises ValueError there).
LanguageIndex(code) ==
    IF \E i \in DOMAIN LanguageNames : LANGUAGES[LanguageNames[i]] = code
    THEN CHOOSE i \in DOMAIN LanguageNames :
            /\ LANGUAGES[LanguageNames[i]] = code
            /\ \A j \in 1..(i - 1) : LANGUAGES[LanguageNames[j]] # code
    ELSE 0

\* The three radio options of "Choose audio source".
SourceSample == "Pick a sample file"
SourceRecord == "Record audio"
SourceUpload == "Upload audio file"
AudioSources == <<SourceSample, SourceRecord, SourceUpload>>

SampleFilePath == "assets/sample_file.wav"
\* open(path, "rb").read(): the bytes of the file at path.
FileBytes(path) == IF path = SampleFilePath THEN "bytes-of-sample_file.wav" ELSE None

\* The checkboxes whose value goes to PrerecordedOptions under the same name.
PlainFlags == {"detect_topics", "diarize", "detect_entities", "multichannel",
               "paragraphs", "profanity_filter", "punctuate", "smart_format",
               "summarize"}
RedactSubOptions == {"numbers", "pci", "ssn"}

\* st.number_input("Utterance split", value=0.8), in tenths of a second.
UttSplitDefault == 8
UttSplitValues == {0, 8, 9}

\* Values the user may type or provide.
KeyInputs == {EmptyStr, "key-typed"}
SearchInputs == {EmptyStr, "TERM_1, TERM_2"}
Recordings == {"recorded-wav"}
Uploads == {"uploaded-file"}

\* How the app is deployed: st.secrets["DEEPGRAM_API_KEY"] and
\* os.environ["DEEPGRAM_API_KEY"], None when the name is not set.
Deployments == {[secret |-> None, env |-> None],
                [secret |-> None, env |-> "key-environ"],
                [secret |-> EmptyStr, env |-> "key-environ"],
                [secret |-> "key-secret", env |-> "key-environ"]}

\* ------------------------------------------------------ the vendor's answers

\* The sub-fields of the first alternative of the first channel that the page
\* reads, and the text each holds when the vendor sends it.
Fields == {"summaries", "paragraphs", "transcript"}
SummaryText == "the-summary"
ParagraphsTranscript == "the-paragraphs-transcript"
PlainTranscript == "the-plain-transcript"

\* A response of transcribe_file(...).to_dict(): the detected_language of the
\* first channel (None when the key is absent) and the sub-fields that are
\* missing from it.  "es" is a language code that LANGUAGES does not list.
DetectedCodes == {None, "fr", "es"}
\* The sets of missing sub-fields tried: none, each one alone, all three.
MissingSets == {{}} \cup {{f} : f \in Fields} \cup {Fields}
Responses == [detected_language : DetectedCodes, missing : MissingSets]

\* str(e) of an exception, as its words.
TimedOut == <<"timed", "out">>
VendorErrors == {<<"The", "read", "operation", "timed", "out">>,
                 <<"timed", "out", "while", "connecting">>,
                 <<"401", "Unauthorized">>}

\* What one call of transcribe_file does: it returns a response (resp holds
\* it) or raises (resp is empty, msg is str(e)).
Returns(r) == [resp |-> <<r>>, msg |-> <<>>]
Raises(m) == [resp |-> <<>>, msg |-> m]
Outcomes == {Returns(r) : r \in Responses} \cup {Raises(m) : m \in VendorErrors}
NoOutcome == Raises(<<>>)

\* Mutant of EndsWith: str.startswith.
StartsWith(msg, suffix) ==
    /\ Len(msg) >= Len(suffix)
    /\ SubSeq(msg, 1, Len(suffix)) = suffix

\* str.endswith on words.
EndsWith(msg, suffix) ==
    /\ Len(msg) >= Len(suffix)
    /\ SubSeq(msg, Len(msg) - Len(suffix) + 1, Len(msg)) = suffix

\* ----------------------------------------------------------------- state

VARIABLES
    secrets,    \* st.secrets["DEEPGRAM_API_KEY"], None when not set
    environ,    \* os.environ["DEEPGRAM_API_KEY"], None when not set
    ui,         \* the value of every widget of the session
    cache,      \* the st.cache_data store of prerecorded
    run,        \* what the last run of the script did
    history,    \* the Transcribe clicks whose call of prerecorded returned
    events      \* the number of user interactions so far

vars == <<secrets, environ, ui, cache, run, history, events>>

\* The widgets as a fresh session shows them.
DefaultUi ==
    [language |-> LanguageNames[1],
     model |-> ModelNames[1],
     key_input |-> EmptyStr,
     detect_topics |-> TRUE,
     diarize |-> TRUE,
     detect_entities |-> TRUE,
     multichannel |-> FALSE,
     paragraphs |-> TRUE,
     profanity_filter |-> FALSE,
     punctuate |-> FALSE,
     redact |-> FALSE,
     numbers |-> FALSE,
     pci |-> FALSE,
     ssn |-> FALSE,
     search |-> FALSE,
     search_terms |-> EmptyStr,
     smart_format |-> TRUE,
     summarize |-> TRUE,
     utterances |-> TRUE,
     utt_split |-> UttSplitDefault,
     audio_source |-> AudioSources[1],
     recorded |-> None,
     uploaded |-> None]

\* ------------------------------------------------------ the page's output

\* One element written to the page: its kind (the st.* call), the container
\* it goes to, its text, and the response it shows (tab1.write(response)).
Elem(kind, where, text) == [kind |-> kind, where |-> where, text |-> text, resp |-> <<>>]
ResponseElem(r) == [kind |-> "write", where |-> "tab1", text |-> <<>>, resp |-> <<r>>]

KeyMissingError == Elem("error", "sidebar", <<"Please enter your Deepgram API key to continue">>)
StarBanner == Elem("success", "main", <<"Star the repo">>)
AudioPlayer(audio) == Elem("audio", "main", <<audio>>)
TimeoutError(msg) == Elem("error", "main", <<"timeout">> \o msg \o <<"Please try after some time">>)
GenericError(msg) == Elem("error", "main", <<"generic", "The app has encountered an error">> \o msg)
Traceback(msg) == Elem("code", "main", <<"traceback">> \o msg)
FieldError(f) == Elem("error", "main", <<"KeyError", f>>)
DetectedLine(code) == Elem("write", "main", <<"Detected language", code, LanguageNames[LanguageIndex(code)]>>)
Tabs(labels) == Elem("tabs", "main", labels)

\* ------------------------------------------------- the script, top to bottom

\* lang_options: the one-entry dict built from the Language selectbox.
LangOptions(language) ==
    IF language = AutoLanguage
    THEN [name |-> "detect_language", value |-> "True"]
    ELSE [name |-> "language", value |-> LANGUAGES[language]]

\* The API key the run goes on with: the text input, else the secret, else
\* the environment variable; stop when none of the three is there.
ResolveKey(u) ==
    IF u.key_input = EmptyStr
    THEN IF secrets # None
         THEN [stop |-> FALSE, key |-> secrets]
         ELSE IF environ # None
              THEN [stop |-> FALSE, key |-> environ]
              ELSE [stop |-> TRUE, key |-> EmptyStr]
    ELSE [stop |-> FALSE, key |-> u.key_input]

\* pci, ssn and numbers: the sub-checkboxes when Redaction is checked, None
\* otherwise.
RedactFlag(u, name) == IF u.redact THEN (IF u[name] THEN "True" ELSE "False") ELSE None

\* redact_options: one slot per sub-option, in the order pci, ssn, numbers.
RedactOptions(u) ==
    << IF RedactFlag(u, "pci") = "True" THEN "pci" ELSE None,
       IF RedactFlag(u, "ssn") = "True" THEN "ssn" ELSE None,
       IF RedactFlag(u, "numbers") = "True" THEN "numbers" ELSE None >>

\* [option for option in redact_options if option]
RedactList(u) == SelectSeq(RedactOptions(u), LAMBDA o : Truthy(o))

\* search_terms: the text input when Search is checked, "" otherwise.
SearchTerms(u) == IF u.search THEN u.search_terms ELSE EmptyStr

\* f"[{search_terms or ''}]": the str made of "[", the terms and "]".
SearchOption(u) == <<"[", (IF Truthy(SearchTerms(u)) THEN SearchTerms(u) ELSE EmptyStr), "]">>

\* Mutant of UttSplit: the number input whatever the Utterances checkbox says.
UttSplitOfInput(u) == u.utt_split

\* utt_split: the number input when Utterances is checked, 0.8 otherwise.
UttSplit(u) == IF u.utterances THEN u.utt_split ELSE UttSplitDefault

\* options = PrerecordedOptions(...): the keyword arguments of the call.
Options(u) ==
    [model |-> MODELS[u.model],
     detect_topics |-> u.detect_topics,
     diarize |-> u.diarize,
     detect_entities |-> u.detect_entities,
     multichannel |-> u.multichannel,
     paragraphs |-> u.paragraphs,
     profanity_filter |-> u.profanity_filter,
     punctuate |-> u.punctuate,
     redact |-> RedactList(u),
     smart_format |-> u.smart_format,
     summarize |-> u.summarize,
     search |-> SearchOption(u),
     utterances |-> u.utterances,
     utt_split |-> UttSplit(u)]

\* st.session_state["audio"] after the audio source was read.
SessionAudio(u) ==
    IF u.audio_source = SourceUpload THEN u.uploaded
    ELSE IF u.audio_source = SourceRecord THEN u.recorded
    ELSE SampleFilePath

\* Whether st.audio plays the clip back.
ShowsPlayer(u) == Truthy(SessionAudio(u)) /\ u.audio_source # SourceRecord

\* source: the widget's value for an upload or a recording, the bytes of the
\* file for the sample.
Source(u) ==
    IF u.audio_source \in {SourceUpload, SourceRecord}
    THEN [buffer |-> SessionAudio(u)]
    ELSE [buffer |-> FileBytes(SessionAudio(u))]

\* Mutant of ButtonDisabled: the button is never disabled.
ButtonNeverDisabled(key) == FALSE

\* st.button(..., disabled=not deepgram_api_key)
ButtonDisabled(key) == ~Truthy(key)

\* Mutant of ButtonPressed: the handler runs in every run that renders the
\* enabled button.
ButtonPressedAlways(clicked, disabled) == ~disabled

\* The value of st.button in a run: True in the run a click on the enabled
\* button started, False in every other run.
ButtonPressed(clicked, disabled) == clicked /\ ~disabled

\* ------------------------------------------------------------ prerecorded

\* An exception: where it was raised and str(e).
Exc(at, msg) == [at |-> at, msg |-> msg]

\* The body of prerecorded after the vendor answered with response r: what it
\* writes (out), the exceptions it catches itself (caught) and the one that
\* leaves it (escaped, empty when it returns).  summarize, paragraphs and
\* smart_format are the globals of the run, the checkboxes of u.
Display(r, u) ==
    LET code == r.detected_language
        detected == IF Truthy(code) THEN <<DetectedLine(code)>> ELSE <<>>
        summaryTab ==
            IF u.summarize
            THEN <<Tabs(<<"Response", "Transcript", "Summary">>)>> \o
                 (IF "summaries" \in r.missing
                  THEN <<FieldError("summaries")>>
                  ELSE <<Elem("write", "tab3", <<SummaryText>>)>>)
            ELSE <<Tabs(<<"Response", "Transcript">>)>>
        wanted == IF u.paragraphs \/ u.smart_format THEN "paragraphs" ELSE "transcript"
        transcriptTab ==
            IF wanted \in r.missing
            THEN <<FieldError(wanted)>>
            ELSE <<Elem("write", "tab2",
                        <<IF wanted = "paragraphs" THEN ParagraphsTranscript ELSE PlainTranscript>>)>>
        caught ==
            (IF u.summarize /\ "summaries" \in r.missing
             THEN <<Exc("field", <<"KeyError", "summaries">>)>> ELSE <<>>) \o
            (IF wanted \in r.missing
             THEN <<Exc("field", <<"KeyError", wanted>>)>> ELSE <<>>)
    IN  IF Truthy(code) /\ LanguageIndex(code) = 0
        THEN [out |-> <<>>, caught |-> <<>>,
              escaped |-> <<Exc("lookup", <<code, "is", "not", "in", "list">>)>>]
        ELSE [out |-> detected \o summaryTab \o <<ResponseElem(r)>> \o transcriptTab,
              caught |-> caught,
              escaped |-> <<>>]

\* Mutant of CacheKey: the key leaves the options out.
CacheKeyOfSource(source, options) == [source |-> source, options |-> <<>>]

\* The st.cache_data key of a call: the arguments, and nothing else.
CacheKey(source, options) == [source |-> source, options |-> options]

\* Whether the store holds an entry for the key.
CacheHit(store, k) == \E e \in store : e.key = k

\* The entry of the key.
CacheGet(store, k) == CHOOSE e \in store : e.key = k

\* One call of prerecorded(source, options) through st.cache_data, with the
\* client built from key, when the vendor would answer with outcome vo.  On a
\* hit the stored elements are replayed and the body does not run; on a miss
\* the body runs and its elements are stored when it returns.
Prerecorded(u, source, options, key, store, vo) ==
    LET k == CacheKey(source, options)
        request == [payload |-> [buffer |-> source.buffer], options |-> options, key |-> key]
        shown == IF vo.resp = <<>>
                 THEN [out |-> <<>>, caught |-> <<>>, escaped |-> <<Exc("vendor", vo.msg)>>]
                 ELSE Display(vo.resp[1], u)
    IN  IF CacheHit(store, k)
        THEN [hit |-> TRUE, requests |-> <<>>, response |-> <<>>,
              out |-> CacheGet(store, k).out, caught |-> <<>>, escaped |-> <<>>,
              store |-> store]
        ELSE [hit |-> FALSE, requests |-> <<request>>, response |-> vo.resp,
              out |-> shown.out, caught |-> shown.caught, escaped |-> shown.escaped,
              store |-> IF shown.escaped = <<>>
                        THEN store \cup {[key |-> k, out |-> shown.out]}
                        ELSE store]

\* The except branch of the Transcribe handler, for the exception e.
Handler(e) ==
    IF EndsWith(e.msg, TimedOut)
    THEN <<TimeoutError(e.msg)>>
    ELSE <<GenericError(e.msg), Traceback(e.msg)>>

\* ------------------------------------------------------- one run of the script

\* The page before its first run.
NoRun ==
    [stage |-> "none", clicked |-> FALSE, key |-> EmptyStr, client |-> <<>>,
     lang_options |-> LangOptions(DefaultUi.language),
     options |-> <<>>, source |-> <<>>, button |-> <<>>,
     hit |-> FALSE, requests |-> <<>>, response |-> <<>>,
     caught |-> <<>>, escaped |-> <<>>, shown |-> <<>>, out |-> <<>>]

\* DeepgramClient(key): whether the constructor accepts an empty key is the
\* vendor's choice; it accepts every other key.
ClientMayRaise(key) == IF Truthy(key) THEN {FALSE} ELSE {FALSE, TRUE}

\* One run of the script over the widget values u: clicked says whether the
\* run was started by the Transcribe button, vo is what the vendor would
\* answer, clientRaises whether DeepgramClient raises.  The result is the
\* record of the run and the cache store after it.
ScriptRun(u, clicked, store, vo, clientRaises) ==
    LET resolved == ResolveKey(u)
        key == resolved.key
        early == [NoRun EXCEPT !.clicked = clicked, !.key = key,
                               !.lang_options = LangOptions(u.language)]
        options == Options(u)
        source == Source(u)
        player == IF ShowsPlayer(u) THEN <<AudioPlayer(SessionAudio(u))>> ELSE <<>>
        call == Prerecorded(u, source, options, key, store, vo)
        handled == IF call.escaped = <<>> THEN <<>> ELSE Handler(call.escaped[1])
        built == [early EXCEPT !.stage = "done", !.client = <<key>>,
                               !.options = <<options>>, !.source = <<source>>,
                               !.button = <<[disabled |-> ButtonDisabled(key)]>>]
    IN  IF resolved.stop
        THEN [run |-> [early EXCEPT !.stage = "stopped", !.out = <<KeyMissingError>>],
              store |-> store]
        ELSE IF clientRaises
        THEN [run |-> [early EXCEPT !.stage = "crashed",
                                    !.out = <<Elem("exception", "main", <<"DeepgramClient">>)>>],
              store |-> store]
        ELSE IF ButtonPressed(clicked, ButtonDisabled(key))
        THEN [run |-> [built EXCEPT !.hit = call.hit, !.requests = call.requests,
                                    !.response = call.response, !.caught = call.caught,
                                    !.escaped = call.escaped, !.shown = call.out,
                                    !.out = player \o call.out \o handled \o <<StarBanner>>],
              store |-> call.store]
        ELSE [run |-> [built EXCEPT !.out = player \o <<StarBanner>>],
              store |-> store]

\* What a click whose call returned leaves in the history.
ClickEntry(r) ==
    [source |-> r.source[1], options |-> r.options[1], key |-> r.key, shown |-> r.shown]

\* The script runs over the widget values u.
Rerun(u, clicked) ==
    \E vo \in (IF clicked THEN Outcomes ELSE {NoOutcome}) :
      \E clientRaises \in ClientMayRaise(ResolveKey(u).key) :
        LET r == ScriptRun(u, clicked, cache, vo, clientRaises)
        IN  /\ ui' = u
            /\ run' = r.run
            /\ cache' = r.store
            /\ history' = IF clicked /\ r.run.stage = "done" /\ r.run.escaped = <<>>
                          THEN history \cup {ClickEntry(r.run)}
                          ELSE history
            /\ UNCHANGED <<secrets, environ>>

\* ---------------------------------------------------------------- actions

Init ==
    /\ \E d \in Deployments : secrets = d.secret /\ environ = d.env
    /\ ui = DefaultUi
    /\ cache = {}
    /\ run = NoRun
    /\ history = {}
    /\ events = 0

\* The browser opens the page: the first run.
PageLoad ==
    /\ run.stage = "none"
    /\ events' = events
    /\ Rerun(ui, FALSE)

\* The user may act once the page is there.
CanAct == run.stage # "none" /\ events < MaxEvents

\* The widgets below the Setup expander are on the page only when the last
\* run got past the API key.
PastKey == run.stage = "done"

\* The user sets the widget w to v, which starts a run.
SetWidget(w, v) ==
    /\ CanAct
    /\ ui[w] # v
    /\ events' = events + 1
    /\ Rerun([ui EXCEPT ![w] = v], FALSE)

ChooseLanguage == \E i \in DOMAIN LanguageNames : SetWidget("language", LanguageNames[i])

ChooseModel == \E i \in DOMAIN ModelNames : SetWidget("model", ModelNames[i])

TypeKey == \E k \in KeyInputs : SetWidget("key_input", k)

ToggleFlag ==
    \E f \in PlainFlags \cup {"redact", "search", "utterances"} :
        PastKey /\ SetWidget(f, ~ui[f])

ToggleRedactSub == \E f \in RedactSubOptions : PastKey /\ ui.redact /\ SetWidget(f, ~ui[f])

TypeSearchTerms == \E t \in SearchInputs : PastKey /\ ui.search /\ SetWidget("search_terms", t)

SetUttSplit == \E v \in UttSplitValues : PastKey /\ ui.utterances /\ SetWidget("utt_split", v)

ChooseAudioSource == \E i \in DOMAIN AudioSources : PastKey /\ SetWidget("audio_source", AudioSources[i])

RecordAudio ==
    \E a \in Recordings : PastKey /\ ui.audio_source = SourceRecord /\ SetWidget("recorded", a)

UploadFile ==
    \E a \in Uploads \cup {None} :
        PastKey /\ ui.audio_source = SourceUpload /\ SetWidget("uploaded", a)

\* The user clicks Transcribe, which the page lets them do when the last run
\* rendered the button and did not disable it.
ClickTranscribe ==
    /\ CanAct
    /\ PastKey
    /\ ~run.button[1].disabled
    /\ events' = events + 1
    /\ Rerun(ui, TRUE)

Next ==
    \/ PageLoad
    \/ ChooseLanguage
    \/ ChooseModel
    \/ TypeKey
    \/ ToggleFlag
    \/ ToggleRedactSub
    \/ TypeSearchTerms
    \/ SetUttSplit
    \/ ChooseAudioSource
    \/ RecordAudio
    \/ UploadFile
    \/ ClickTranscribe

Spec == Init /\ [][Next]_vars

\* ----------------------------------------------------------------- claims

\* The last run got to the options and the button.
Built == run.stage = "done"

\* The requests the last run sent to the vendor.
Sent == {run.requests[i] : i \in DOMAIN run.requests}

\* The number of elements of the page equal to e, and whether there is one.
Shown(e) == Cardinality({i \in DOMAIN run.out : run.out[i] = e})
OnPage(e) == \E i \in DOMAIN run.out : run.out[i] = e

\* The elements that are tabs or are written to a tab.
TabElems == {i \in DOMAIN run.out :
                run.out[i].kind = "tabs" \/ run.out[i].where \in {"tab1", "tab2", "tab3"}}

\* Whether an options object carries the selections of the widgets.
CarriesSelections(o) ==
    /\ o.model = MODELS[ui.model]
    /\ \A f \in PlainFlags \cup {"utterances"} : o[f] = ui[f]
    /\ o.utt_split = IF ui.utterances THEN ui.utt_split ELSE 8

\* C1: the options object built by a run, and handed to the transcription
\* call, carries every selection unchanged: the model of the table, the ten
\* checkboxes, and the utterance split (0.8 when Utterances is unchecked).
C1_OptionsCarrySelections ==
    /\ Built => CarriesSelections(run.options[1])
    /\ \A q \in Sent : CarriesSelections(q.options)

\* C1 witness: a request went out with a model and checkboxes that are not
\* the defaults.
C1_Witness ==
    /\ Sent # {}
    /\ ui.model # DefaultUi.model
    /\ \E f \in PlainFlags \cup {"utterances"} : ui[f] # DefaultUi[f]

\* C2: every request carries the language of the selectbox: detect_language
\* = True for automatic detection, language = LANGUAGES[language] otherwise.
C2_LanguageForwarded ==
    \A q \in Sent :
        LET expected == IF ui.language = AutoLanguage
                        THEN [name |-> "detect_language", value |-> "True"]
                        ELSE [name |-> "language", value |-> LANGUAGES[ui.language]]
        IN  /\ expected.name \in DOMAIN q.options
            /\ q.options[expected.name] = expected.value

\* The checked sub-options of Redaction in the order pci, ssn, numbers; none
\* when Redaction is unchecked.
CheckedRedactions == SelectSeq(<<"pci", "ssn", "numbers">>, LAMBDA n : ui.redact /\ ui[n])

\* Whether the options send a search value to the vendor: the str is not empty.
SendsSearch(o) == \E i \in DOMAIN o.search : o.search[i] # EmptyStr

\* C3: a disabled feature contributes nothing: the redact list is the checked
\* sub-options, and a search value is sent only when Search is checked and
\* terms were entered.
C3_DisabledContributeNothing ==
    \A q \in Sent :
        /\ q.options.redact = CheckedRedactions
        /\ SendsSearch(q.options) => (ui.search /\ ui.search_terms # EmptyStr)

\* The redaction half of C3, which the code keeps.
C3_RedactListOnly == \A q \in Sent : q.options.redact = CheckedRedactions

\* C4: a run calls the vendor at most once, and only when it was started by
\* a click on Transcribe.
C4_AtMostOneCallOnlyOnClick ==
    /\ Len(run.requests) <= 1
    /\ run.requests # <<>> => run.clicked

\* C4 witness: a run started by a click called the vendor once.
C4_Witness == run.clicked /\ Len(run.requests) = 1

\* The audio of the selected source.
SelectedAudio ==
    IF ui.audio_source = SourceSample THEN FileBytes(SampleFilePath)
    ELSE IF ui.audio_source = SourceRecord THEN ui.recorded
    ELSE ui.uploaded

\* C5: the payload of every request is the audio of the selected source, and
\* is never None.
C5_PayloadIsSelectedAudio ==
    \A q \in Sent : q.payload.buffer = SelectedAudio /\ q.payload.buffer # None

\* The half of C5 the code keeps: the payload is what the selected source holds.
C5_PayloadOfSelectedSource == \A q \in Sent : q.payload.buffer = SelectedAudio

\* No key anywhere: the text input is empty and neither the secrets nor the
\* environment name one.
NoKeyAnywhere == ui.key_input = EmptyStr /\ secrets = None /\ environ = None

\* The key by precedence: the text input, else the secret, else the variable.
KeyByPrecedence ==
    IF ui.key_input # EmptyStr THEN ui.key_input
    ELSE IF secrets # None THEN secrets
    ELSE environ

\* C6: no request goes out without an API key.  With no key anywhere the run
\* shows the "Please enter" error and stops before the client and the button;
\* otherwise the key of the run, of its client and of its requests is the
\* text input, else the secret, else the environment variable.
C6_NoRequestWithoutKey ==
    /\ \A q \in Sent : q.key # EmptyStr /\ q.key # None /\ q.key = KeyByPrecedence
    /\ run.stage # "none" =>
         IF NoKeyAnywhere
         THEN /\ run.stage = "stopped"
              /\ run.out = <<KeyMissingError>>
              /\ run.client = <<>>
              /\ run.button = <<>>
         ELSE /\ run.stage \in {"done", "crashed"}
              /\ run.key = KeyByPrecedence
              /\ run.client \in {<<>>, <<KeyByPrecedence>>}
              /\ Built => run.client = <<KeyByPrecedence>>

\* C6 witness: with no key anywhere a run that a widget change started
\* stopped at the key.
C6_Witness == NoKeyAnywhere /\ events > 0 /\ run.stage = "stopped" /\ run.out = <<KeyMissingError>>

\* The other cases of C6: an empty secret is the key and the button is
\* disabled; a request went out with the secret although the environment
\* names a key too; a request went out with the typed key.
C6_WitnessDisabled == Built /\ run.key = EmptyStr /\ run.button[1].disabled /\ events > 0
C6_WitnessSecret == \E q \in Sent : q.key = secrets /\ environ # None
C6_WitnessTyped == \E q \in Sent : q.key = ui.key_input /\ secrets # None

\* Whether str(e) ends with "timed out", read off the last two words.
EndsTimedOut(msg) == Len(msg) >= 2 /\ msg[Len(msg) - 1] = "timed" /\ msg[Len(msg)] = "out"

\* The message of the Transcribe handler for an exception with text msg.
OuterMessage(msg) == IF EndsTimedOut(msg) THEN TimeoutError(msg) ELSE GenericError(msg)

\* The exceptions raised while the last run handled a click.
RaisedInRun ==
    {run.caught[i] : i \in DOMAIN run.caught} \cup {run.escaped[i] : i \in DOMAIN run.escaped}

\* A traceback follows the generic message of msg, and only that one.
TracebackFollows(msg) ==
    IF EndsTimedOut(msg)
    THEN ~OnPage(Traceback(msg))
    ELSE \E i \in DOMAIN run.out :
            /\ run.out[i] = GenericError(msg)
            /\ i + 1 \in DOMAIN run.out
            /\ run.out[i + 1] = Traceback(msg)

\* The run went on to the banner, its last element.
EndsWithBanner == Built /\ run.out # <<>> /\ run.out[Len(run.out)] = StarBanner

\* C7 as stated: every exception raised while a click is handled, by the
\* vendor call or by the display, gets exactly one message of the handler
\* (the timeout one or the generic one with the traceback), and the run goes
\* on to the banner.
C7_EveryExceptionGetsHandlerMessage ==
    (run.clicked /\ run.stage # "stopped" /\ run.stage # "crashed") =>
        /\ \A e \in RaisedInRun : Shown(OuterMessage(e.msg)) = 1 /\ TracebackFollows(e.msg)
        /\ EndsWithBanner

\* C7 amended: no exception leaves the handler and the run goes on to the
\* banner.  An exception that leaves prerecorded (the vendor call, the
\* detected-language lookup) gets exactly one message of the handler: the
\* timeout one without traceback when its text ends with "timed out", else
\* the generic one followed by the traceback.  A missing sub-field is caught
\* inside prerecorded and gets exactly one plain error with its own text, and
\* no message of the handler.
C7_ExceptionsCaughtAndPrinted ==
    (run.clicked /\ run.stage # "stopped" /\ run.stage # "crashed") =>
        /\ \A i \in DOMAIN run.escaped :
              /\ Shown(OuterMessage(run.escaped[i].msg)) = 1
              /\ TracebackFollows(run.escaped[i].msg)
        /\ \A i \in DOMAIN run.caught :
              /\ Shown(Elem("error", "main", run.caught[i].msg)) = 1
              /\ ~OnPage(OuterMessage(run.caught[i].msg))
              /\ ~OnPage(Traceback(run.caught[i].msg))
        /\ Cardinality({i \in DOMAIN run.out : run.out[i].kind = "error"})
              = IF run.hit
                THEN Cardinality({i \in DOMAIN run.shown : run.shown[i].kind = "error"})
                ELSE Len(run.escaped) + Len(run.caught)
        /\ EndsWithBanner

\* C7 witness: the vendor call timed out, the timeout message is on the page
\* and the banner after it.
C7_Witness ==
    /\ run.clicked
    /\ \E i \in DOMAIN run.escaped :
          /\ run.escaped[i].at = "vendor"
          /\ EndsTimedOut(run.escaped[i].msg)
          /\ OnPage(TimeoutError(run.escaped[i].msg))
    /\ EndsWithBanner

\* C7 witness of the other two cases: two missing sub-fields, and an exception
\* whose text only starts with "timed out".
C7_WitnessCaught == run.clicked /\ Len(run.caught) = 2 /\ EndsWithBanner
C7_WitnessGeneric ==
    /\ run.clicked
    /\ \E i \in DOMAIN run.escaped :
          /\ ~EndsTimedOut(run.escaped[i].msg)
          /\ run.escaped[i].msg[1] = "timed"
    /\ EndsWithBanner

\* The sub-field the Transcript tab reads.
WantedTranscript == IF ui.paragraphs \/ ui.smart_format THEN "paragraphs" ELSE "transcript"

\* What the tabs show for the response r under the selected options: the tabs
\* are created once, with a Summary tab iff Summarization is checked; the
\* Response tab gets r; the Summary and Transcript tabs get their sub-field,
\* or one error when it is missing; and there is no other error.
TabsShow(r) ==
    /\ Shown(Tabs(IF ui.summarize
                  THEN <<"Response", "Transcript", "Summary">>
                  ELSE <<"Response", "Transcript">>)) = 1
    /\ Cardinality({i \in DOMAIN run.out : run.out[i].kind = "tabs"}) = 1
    /\ Shown(ResponseElem(r)) = 1
    /\ IF WantedTranscript \in r.missing
       THEN /\ Shown(FieldError(WantedTranscript)) = 1
            /\ \A i \in DOMAIN run.out : run.out[i].where # "tab2"
       ELSE Shown(Elem("write", "tab2",
                       <<IF WantedTranscript = "paragraphs"
                         THEN ParagraphsTranscript ELSE PlainTranscript>>)) = 1
    /\ IF ui.summarize
       THEN IF "summaries" \in r.missing
            THEN /\ Shown(FieldError("summaries")) = 1
                 /\ \A i \in DOMAIN run.out : run.out[i].where # "tab3"
            ELSE Shown(Elem("write", "tab3", <<SummaryText>>)) = 1
       ELSE \A i \in DOMAIN run.out : run.out[i].where # "tab3"
    /\ Cardinality({i \in DOMAIN run.out : run.out[i].kind = "error"})
          = Cardinality({f \in r.missing :
                            f = WantedTranscript \/ (f = "summaries" /\ ui.summarize)})

\* C8: after every successful transcription call the response is shown in
\* the tabs the options select, and a missing sub-field costs only its own
\* tab.
C8_TabsAfterSuccess ==
    (run.clicked /\ run.response # <<>>) => TabsShow(run.response[1])

\* The codes LANGUAGES lists.
ListedCodes == {"en", "fr", "hi"}

\* The part of C8 the code keeps: the same, for a response whose detected
\* language is absent or listed in LANGUAGES.
C8_TabsWhenLanguageListed ==
    (run.clicked /\ run.response # <<>>
       /\ run.response[1].detected_language \in ListedCodes \cup {None})
    => TabsShow(run.response[1])

\* A response with a missing sub-field was shown in its tabs.
C8_WitnessListed ==
    /\ run.clicked /\ run.response # <<>>
    /\ run.response[1].missing # {}
    /\ ~ui.summarize
    /\ TabsShow(run.response[1])

\* C9: the result of prerecorded is cached on (source, options) only.  A
\* click whose source and options are those of an earlier click that returned
\* sends no request and shows what that click showed, whatever the API key
\* is by now; any other click sends one request.
C9_CachedOnArguments ==
    [][(run'.clicked /\ run'.stage = "done" /\ events' # events) =>
         LET earlier == {h \in history :
                           h.source = run'.source[1] /\ h.options = run'.options[1]}
         IN  IF earlier # {}
             THEN /\ run'.requests = <<>>
                  /\ \A h \in earlier : run'.shown = h.shown
             ELSE Len(run'.requests) = 1]_vars

\* C9 witness: a click sent no request, and an earlier click with the same
\* source and options had returned under another API key.
C9_Witness ==
    /\ run.clicked /\ Built
    /\ run.requests = <<>>
    /\ \E h \in history :
          /\ h.source = run.source[1]
          /\ h.options = run.options[1]
          /\ h.key # run.key
          /\ h.shown = run.shown

\* The other case of C9: after a click that returned, a click with other
\* options sent a request.
C9_WitnessMiss ==
    /\ run.clicked /\ Built
    /\ Len(run.requests) = 1
    /\ \E h \in history : h.source = run.source[1] /\ h.options # run.options[1]

\* The name LANGUAGES gives to a code.
NameOfCode(code) == CHOOSE n \in DOMAIN LANGUAGES : LANGUAGES[n] = code

\* C10: when the response carries a detected language that LANGUAGES lists,
\* the "Detected language" line with its name comes before every tab; when it
\* carries a code LANGUAGES does not list, no tab is rendered and the page
\* shows the generic error of the handler with its traceback.
C10_DetectedLanguage ==
    (run.clicked /\ run.response # <<>> /\ run.response[1].detected_language # None) =>
        LET code == run.response[1].detected_language
            lookupText == <<code, "is", "not", "in", "list">>
        IN  IF code \in ListedCodes
            THEN \E i \in DOMAIN run.out :
                    /\ run.out[i] = Elem("write", "main",
                                         <<"Detected language", code, NameOfCode(code)>>)
                    /\ TabElems # {}
                    /\ \A j \in TabElems : i < j
            ELSE /\ TabElems = {}
                 /\ Shown(GenericError(lookupText)) = 1
                 /\ Shown(Traceback(lookupText)) = 1
                 /\ run.escaped = <<Exc("lookup", lookupText)>>

\* C10 witness: the vendor answered with the code "es", which LANGUAGES does
\* not list, and the page shows the generic error.
C10_Witness ==
    /\ run.clicked /\ run.response # <<>>
    /\ run.response[1].detected_language \notin ListedCodes \cup {None}
    /\ OnPage(GenericError(<<run.response[1].detected_language, "is", "not", "in", "list">>))

\* The other case of C10: a listed code, its line on the page.
C10_WitnessListed ==
    /\ run.clicked /\ run.response # <<>>
    /\ run.response[1].detected_language = "fr"
    /\ OnPage(Elem("write", "main", <<"Detected language", "fr", "French">>))

====
